---- MODULE Spec2Model ----
(***************************************************************************)
(* Model of mercately_etl.py: one run of MercatelyETL.incremental_accumulate *)
(* against the table mercately_clientes, the paginated customers API and   *)
(* the checkpoint file.                                                    *)
(*                                                                         *)
(* The table is a bag of rows (SQL tables are unordered and the table has  *)
(* no key constraint).  SQL NULL, Python None and pandas NA/NaT are all    *)
(* written NULL.  Timestamps and dates are small integers, NULL excluded.  *)
(***************************************************************************)
EXTENDS Integers, Sequences, FiniteSets, Bags, TLC

VARIABLES
    table,          \* committed content of mercately_clientes (a bag of rows)
    checkpoint,     \* last_run in mercately_checkpoint.json, NULL when the file is absent
    api,            \* the raw customer records the API holds for the window
    pc,             \* position of the run
    error,          \* the exception that ended the run, "none" otherwise
    end_date,       \* local of incremental_accumulate
    start_date,     \* local of incremental_accumulate
    existing_ids,   \* local of incremental_accumulate: the id snapshot
    all_customers,  \* local of incremental_accumulate: records kept for insertion
    page,           \* local of incremental_accumulate: next page to request
    fetched,        \* pbar.n: records received from the API so far
    stop,           \* kind of the response that ended the page loop, "none" before
    df_clean,       \* local of _accumulate_safe: the normalized rows
    nuevos_insertados, \* local of _accumulate_safe: reported inserted count
    tx,             \* the open transaction's view of the table (EmptyBag when none is open)
    total_antes,    \* local of _accumulate_safe
    deleted,        \* local of _accumulate_safe: rowcount of the dedupe DELETE
    total_despues,  \* local of _accumulate_safe
    critical,       \* TRUE once "ERROR CRITICO: TOTAL DISMINUYO" was printed
    table_before,   \* history: the table when the run started
    checkpoint_before, \* history: the checkpoint when the run started
    rerun,          \* "off": a single run; "first"/"second": two runs fed the same pages
    served,         \* history: the responses served to the first of two runs
    first_table,    \* history: the table the first of two runs ended with
    runs            \* the locals of the runs that execute concurrently, <<>> when the run is alone

vars == <<table, checkpoint, api, pc, error, end_date, start_date, existing_ids,
          all_customers, page, fetched, stop, df_clean, nuevos_insertados, tx,
          total_antes, deleted, total_despues, critical, table_before,
          checkpoint_before, rerun, served, first_table, runs>>

run_locals == <<end_date, start_date, existing_ids, all_customers, page, fetched,
                stop, df_clean, nuevos_insertados, tx, total_antes, deleted,
                total_despues, critical>>

history == <<table_before, checkpoint_before, rerun, served, first_table>>

----------------------------------------------------------------------------
(* Bounds of the model *)

MaxId == 2          \* customer ids are 1..MaxId
MaxTime == 2        \* updated_at of the rows stored before the run is 1..MaxTime
MaxInit == 2        \* rows stored before the run
MaxFetched == 3     \* records the API serves to one run, over all its pages
Today == 9          \* the clock date of the run, in days

(* Program constants *)

NULL == 0           \* None / NaN / NaT / SQL NULL
EMPTY_FILE == -1    \* the checkpoint file right after open(..., 'w'): no JSON in it
days_back == 7      \* incremental_accumulate(days_back=7)
UNBOUND == -1       \* total_despues before line 167 has assigned it

Ids == 1..MaxId

----------------------------------------------------------------------------
(* Raw API values.  A raw value is the JSON literal the API sent. *)

RawNumerics == {"null", "7", "'7'", "'abc'", "1.5"}
RawDates    == {"null", "'2024-01-01'", "'2024-01-02'", "'soon'"}
RawBools    == {"null", "true", "false", "'yes'"}
RawJsons    == {"null", "[]", "['vip']"}

(* pd.to_numeric(col, errors='coerce') on one value: a float64, in tenths. *)
to_numeric(x) ==
    CASE x = "7"   -> [nan |-> FALSE, tenths |-> 70]
      [] x = "'7'" -> [nan |-> FALSE, tenths |-> 70]
      [] x = "1.5" -> [nan |-> FALSE, tenths |-> 15]
      [] OTHER     -> [nan |-> TRUE, tenths |-> 0]

(* .astype('Int64') accepts a float column only if every value is NaN or integral. *)
SafeInt64(f) == f.nan \/ f.tenths % 10 = 0

astype_Int64(f) == IF f.nan THEN NULL ELSE f.tenths \div 10

(* pd.to_datetime(col, errors='coerce') on one value. *)
to_datetime(x) ==
    CASE x = "'2024-01-01'" -> 1
      [] x = "'2024-01-02'" -> 2
      [] OTHER              -> NULL

(* .astype('boolean') accepts only bool-like values and missing ones. *)
BoolLike(x) == x \in {"null", "true", "false"}

astype_boolean(x) ==
    CASE x = "true"  -> "True"
      [] x = "false" -> "False"
      [] OTHER       -> "NA"

(* lambda x: json.dumps(x) if x else None *)
dumps_or_none(x) ==
    CASE x = "['vip']" -> "[\"vip\"]"
      [] OTHER         -> "None"

RawRecord(i, cd, camp, opt, tg) ==
    [id |-> i, creation_date |-> cd, campaign_id |-> camp,
     whatsapp_opt_in |-> opt, tags |-> tg]

(* One row of df_clean, as to_sql stores it: the API sends no updated_at. *)
CleanRow(c) ==
    [id |-> c.id,
     updated_at |-> NULL,
     creation_date |-> to_datetime(c.creation_date),
     campaign_id |-> astype_Int64(to_numeric(c.campaign_id)),
     whatsapp_opt_in |-> astype_boolean(c.whatsapp_opt_in),
     tags |-> dumps_or_none(c.tags)]

(* _preprocess_df raises TypeError when a column cannot be cast. *)
PreprocessRaises(df) ==
    \E k \in 1..Len(df) :
        \/ ~SafeInt64(to_numeric(df[k].campaign_id))
        \/ ~BoolLike(df[k].whatsapp_opt_in)

_preprocess_df(df) == [k \in 1..Len(df) |-> CleanRow(df[k])]

----------------------------------------------------------------------------
(* The table *)

Range(s) == {s[k] : k \in DOMAIN s}

Seqs(S, n) == UNION {[1..k -> S] : k \in 0..n}

(* The bag holding the elements of a sequence, with their multiplicities. *)
SeqToBag(s) == [r \in Range(s) |-> Cardinality({k \in DOMAIN s : s[k] = r})]

\* SELECT COUNT( * ) FROM mercately_clientes
CountRows(t) == BagCardinality(t)

(* SELECT id FROM mercately_clientes, as a Python set *)
SelectIds(t) == {r.id : r \in BagToSet(t)}

(* Rows of one PARTITION BY id group (NULL ids form one group). *)
Partition(t, i) == [r \in {x \in BagToSet(t) : x.id = i} |-> t[r]]

(* The ranked CTE: SELECT id, ROW_NUMBER() OVER (PARTITION BY id ORDER BY ...).
   Only id and rn are selected, so the ORDER BY decides which row carries which
   rn but not the (id, rn) pairs: a group of n rows yields rn = 1..n. *)
ranked(t) ==
    UNION {{[id |-> i, rn |-> k] : k \in 1..BagCardinality(Partition(t, i))}
           : i \in SelectIds(t)}

(* WHERE id IN (SELECT id FROM ranked WHERE rn > 1): a NULL id never matches IN. *)
DedupeMatches(t, r) ==
    /\ r.id # NULL
    /\ r.id \in {x.id : x \in {y \in ranked(t) : y.rn > 1}}

(* Faulty variant of dedupe_sql: the sweep deletes nothing. *)
dedupe_sql_deletes_nothing(t) == t

(* DELETE FROM mercately_clientes WHERE id IN (...): the table afterwards. *)
dedupe_sql(t) == [r \in {x \in BagToSet(t) : ~DedupeMatches(t, x)} |-> t[r]]

(* df_clean.to_sql('mercately_clientes', conn, if_exists='append') *)
to_sql(t, df) == t (+) SeqToBag(df)

----------------------------------------------------------------------------
(* The API *)

(* What one GET /customers can come back with. *)
Responses(pool, n) ==
    {[kind |-> "ok", customers |-> cs] : cs \in Seqs(pool, n)}
    \cup {[kind |-> k, customers |-> <<>>] :
              k \in {"non200", "no_customers_key", "timeout", "not_json",
                     "not_object", "customer_not_object"}}

(* requests.get raises on a timeout, resp.json() raises on a body that is no JSON. *)
ClientRaises(resp) == resp.kind \in {"timeout", "not_json"}

ClientError(resp) == IF resp.kind = "timeout" THEN "Timeout" ELSE "JSONDecodeError"

(* A 200 body that is JSON and truthy but no object ([1, 2], "error", 5) has no
   .get (line 89); neither has a customer that is no object (line 98). *)
LoopRaises(resp) == resp.kind \in {"not_object", "customer_not_object"}

Raises(resp) == ClientRaises(resp) \/ LoopRaises(resp)

RaisedError(resp) == IF ClientRaises(resp) THEN ClientError(resp) ELSE "AttributeError"

(* not data or not data.get('customers'), for a response that raises nowhere *)
EndOfData(resp) ==
    \/ resp.kind = "non200"
    \/ resp.kind = "no_customers_key"
    \/ (resp.kind = "ok" /\ resp.customers = <<>>)

(* Faulty variant of nuevos_customers: the page is accumulated unfiltered. *)
nuevos_customers_unfiltered(customers, ids) == customers

(* [c for c in customers if c.get('id') not in existing_ids] *)
nuevos_customers(customers, ids) ==
    SelectSeq(customers, LAMBDA c : c.id \notin ids)

----------------------------------------------------------------------------
(* Initial states *)

StoredRow(i, u) ==
    [id |-> i, updated_at |-> u,
     creation_date |-> IF u = 1 THEN 1 ELSE Today - 1, campaign_id |-> NULL,
     whatsapp_opt_in |-> "NA", tags |-> "None"]

InitRows == {StoredRow(i, u) : i \in Ids, u \in 1..MaxTime} \cup {StoredRow(NULL, 1)}

InitTables == {SeqToBag(s) : s \in Seqs(InitRows, MaxInit)}

(* The contact columns of a customer, which _preprocess_df leaves as they are. *)
Contact ==
    [first_name |-> "Ana", last_name |-> "Paz", phone |-> "593", email |-> "a@b.c",
     city |-> "Quito"]

GoodRecord(i) == RawRecord(i, "'2024-01-02'", "7", "true", "['vip']") @@ Contact

(* A customer the API sent without id and without contact columns. *)
BareRecord == RawRecord(NULL, "'2024-01-02'", "7", "true", "['vip']")

cols_key ==
    {"first_name", "last_name", "phone", "email", "city", "campaign_id", "creation_date"}

(* pd.DataFrame(records).columns: every key that some record carries. *)
Columns(df) == UNION {DOMAIN df[k] : k \in DOMAIN df}

JunkRecord == RawRecord(MaxId, "'soon'", "'abc'", "'yes'", "[]")

RunRecords == {GoodRecord(i) : i \in Ids} \cup {BareRecord, JunkRecord}

InitRun ==
    /\ pc = "start"
    /\ error = "none"
    /\ end_date = NULL
    /\ start_date = NULL
    /\ existing_ids = {}
    /\ all_customers = <<>>
    /\ page = 1
    /\ fetched = 0
    /\ stop = "none"
    /\ df_clean = <<>>
    /\ nuevos_insertados = 0
    /\ tx = EmptyBag
    /\ total_antes = 0
    /\ deleted = 0
    /\ total_despues = UNBOUND
    /\ critical = FALSE

Init ==
    /\ table \in InitTables
    /\ checkpoint = IF table = EmptyBag THEN NULL ELSE Today - 1
    /\ api = RunRecords
    /\ InitRun
    /\ table_before = table
    /\ checkpoint_before = checkpoint
    /\ rerun = "off"
    /\ served = <<>>
    /\ first_table = EmptyBag
    /\ runs = <<>>

----------------------------------------------------------------------------
(* incremental_accumulate *)

(* Faulty variant of Snapshot: the window starts at the saved checkpoint. *)
Snapshot_from_checkpoint ==
    /\ pc = "start"
    /\ end_date' = Today
    /\ start_date' = IF checkpoint = NULL THEN Today - days_back ELSE checkpoint
    /\ existing_ids' = SelectIds(table)
    /\ all_customers' = <<>>
    /\ page' = 1
    /\ pc' = "fetch"
    /\ UNCHANGED <<table, checkpoint, api, error, fetched, stop, df_clean,
                   nuevos_insertados, tx, total_antes, deleted, total_despues,
                   critical, history, runs>>

(* Lines 66-79: the window, the Existing-Key Index snapshot, the empty list. *)
Snapshot ==
    /\ pc = "start"
    /\ end_date' = Today
    /\ start_date' = Today - days_back
    /\ existing_ids' = SelectIds(table)
    /\ all_customers' = <<>>
    /\ page' = 1
    /\ pc' = "fetch"
    /\ UNCHANGED <<table, checkpoint, api, error, fetched, stop, df_clean,
                   nuevos_insertados, tx, total_antes, deleted, total_despues,
                   critical, history, runs>>

(* Faulty variant of _save_checkpoint: the file is left as it was. *)
_save_checkpoint_skipped(date) == checkpoint

(* _save_checkpoint(date): json.dump({"last_run": date.isoformat()}) *)
_save_checkpoint(date) == date

(* The responses the request for the current page can get: any the API can give
   within the bound, or, for the second of two runs, the one the first run got. *)
Answers ==
    IF rerun = "second"
    THEN {served[k] : k \in {page} \cap DOMAIN served}
    ELSE Responses(api, MaxFetched - fetched)

Served(resp) ==
    served' = IF rerun = "first" THEN Append(served, resp) ELSE served

(* Lines 83-87, 89 or 98 raise: the exception leaves incremental_accumulate. *)
FetchRaises ==
    /\ pc = "fetch"
    /\ \E resp \in Answers :
        /\ Served(resp)
        /\ Raises(resp)
        /\ error' = RaisedError(resp)
        /\ stop' = resp.kind
    /\ pc' = "raised"
    /\ UNCHANGED <<table, checkpoint, api, end_date, start_date, existing_ids,
                   all_customers, page, fetched, df_clean, nuevos_insertados, tx,
                   total_antes, deleted, total_despues, critical, table_before,
                   checkpoint_before, rerun, first_table, runs>>

(* Lines 89-95 and 112-114: the loop breaks and the run branches on len(df_nuevos). *)
FetchEnds ==
    /\ pc = "fetch"
    /\ \E resp \in Answers :
        /\ Served(resp)
        /\ ~Raises(resp)
        /\ EndOfData(resp)
        /\ stop' = resp.kind
    /\ pc' = IF Len(all_customers) = 0 THEN "no_new" ELSE "accumulate"
    /\ UNCHANGED <<table, checkpoint, api, error, end_date, start_date,
                   existing_ids, all_customers, page, fetched, df_clean,
                   nuevos_insertados, tx, total_antes, deleted, total_despues,
                   critical, table_before, checkpoint_before, rerun, first_table, runs>>

(* Faulty variant of FetchPage: the page after the next is requested. *)
FetchPage_skips_page ==
    /\ pc = "fetch"
    /\ \E resp \in Answers :
        /\ Served(resp)
        /\ ~Raises(resp)
        /\ ~EndOfData(resp)
        /\ all_customers' =
               all_customers \o nuevos_customers(resp.customers, existing_ids)
        /\ fetched' = fetched + Len(resp.customers)
    /\ page' = page + 2
    /\ UNCHANGED <<table, checkpoint, api, pc, error, end_date, start_date,
                   existing_ids, stop, df_clean, nuevos_insertados, tx,
                   total_antes, deleted, total_despues, critical, table_before,
                   checkpoint_before, rerun, first_table, runs>>

(* Faulty variant of FetchPage: the checkpoint is written after every page. *)
FetchPage_saves_checkpoint ==
    /\ pc = "fetch"
    /\ \E resp \in Answers :
        /\ Served(resp)
        /\ ~Raises(resp)
        /\ ~EndOfData(resp)
        /\ all_customers' =
               all_customers \o nuevos_customers(resp.customers, existing_ids)
        /\ fetched' = fetched + Len(resp.customers)
    /\ page' = page + 1
    /\ checkpoint' = _save_checkpoint(end_date)
    /\ UNCHANGED <<table, api, pc, error, end_date, start_date,
                   existing_ids, stop, df_clean, nuevos_insertados, tx,
                   total_antes, deleted, total_despues, critical, table_before,
                   checkpoint_before, rerun, first_table, runs>>

(* Lines 93-110: one page of customers is filtered and accumulated. *)
FetchPage ==
    /\ pc = "fetch"
    /\ \E resp \in Answers :
        /\ Served(resp)
        /\ ~Raises(resp)
        /\ ~EndOfData(resp)
        /\ all_customers' =
               all_customers \o nuevos_customers(resp.customers, existing_ids)
        /\ fetched' = fetched + Len(resp.customers)
    /\ page' = page + 1
    /\ UNCHANGED <<table, checkpoint, api, pc, error, end_date, start_date,
                   existing_ids, stop, df_clean, nuevos_insertados, tx,
                   total_antes, deleted, total_despues, critical, table_before,
                   checkpoint_before, rerun, first_table, runs>>

(* Lines 116 and 133, when a query of _verify_accumulation fails: the exception
   leaves the run, before the checkpoint write on the no-new path, after it on
   the other. *)
VerifyFails ==
    /\ pc \in {"no_new", "report"}
    /\ error' = "DBError"
    /\ pc' = IF pc = "no_new" THEN "raised" ELSE "raised_late"
    /\ UNCHANGED <<table, checkpoint, api, run_locals, history, runs>>

(* Lines 114-118: no new customer: _verify_accumulation passes, then the checkpoint. *)
NoNewCustomers ==
    /\ pc = "no_new"
    /\ checkpoint' = _save_checkpoint(end_date)
    /\ pc' = "done"
    /\ UNCHANGED <<table, api, error, run_locals, history, runs>>

----------------------------------------------------------------------------
(* _accumulate_safe *)

(* Lines 138-139, when _preprocess_df raises: no transaction was begun. *)
PreprocessFails ==
    /\ pc = "accumulate"
    /\ PreprocessRaises(all_customers)
    /\ error' = "TypeError"
    /\ pc' = "raised"
    /\ UNCHANGED <<table, checkpoint, api, run_locals, history, runs>>

(* Lines 138-144: normalize, begin the transaction, count the rows. *)
Begin ==
    /\ pc = "accumulate"
    /\ ~PreprocessRaises(all_customers)
    /\ df_clean' = _preprocess_df(all_customers)
    /\ nuevos_insertados' = Len(df_clean')
    /\ tx' = table
    /\ total_antes' = CountRows(table)
    /\ pc' = "insert"
    /\ UNCHANGED <<table, checkpoint, api, error, end_date, start_date,
                   existing_ids, all_customers, page, fetched, stop, deleted,
                   total_despues, critical, history, runs>>

(* Lines 147-148 *)
Insert ==
    /\ pc = "insert"
    /\ tx' = to_sql(tx, df_clean)
    /\ pc' = "dedupe"
    /\ UNCHANGED <<table, checkpoint, api, error, end_date, start_date,
                   existing_ids, all_customers, page, fetched, stop, df_clean,
                   nuevos_insertados, total_antes, deleted, total_despues,
                   critical, history, runs>>

(* Lines 151-164 *)
Dedupe ==
    /\ pc = "dedupe"
    /\ tx' = dedupe_sql(tx)
    /\ deleted' = CountRows(tx) - CountRows(tx')
    /\ pc' = "count"
    /\ UNCHANGED <<table, checkpoint, api, error, end_date, start_date,
                   existing_ids, all_customers, page, fetched, stop, df_clean,
                   nuevos_insertados, total_antes, total_despues, critical,
                   history, runs>>

(* Faulty variant of CountAfter: an unchanged count is flagged too. *)
CountAfter_flags_equal ==
    /\ pc = "count"
    /\ total_despues' = CountRows(tx)
    /\ critical' = (total_despues' <= total_antes)
    /\ pc' = "commit"
    /\ UNCHANGED <<table, checkpoint, api, error, end_date, start_date,
                   existing_ids, all_customers, page, fetched, stop, df_clean,
                   nuevos_insertados, tx, total_antes, deleted, history, runs>>

(* Lines 167-173 *)
CountAfter ==
    /\ pc = "count"
    /\ total_despues' = CountRows(tx)
    /\ critical' = (total_despues' < total_antes)
    /\ pc' = "commit"
    /\ UNCHANGED <<table, checkpoint, api, error, end_date, start_date,
                   existing_ids, all_customers, page, fetched, stop, df_clean,
                   nuevos_insertados, tx, total_antes, deleted, history, runs>>

(* Leaving "with engine.begin()" normally commits. *)
Commit ==
    /\ pc = "commit"
    /\ table' = tx
    /\ tx' = EmptyBag
    /\ pc' = "save"
    /\ UNCHANGED <<checkpoint, api, error, end_date, start_date, existing_ids,
                   all_customers, page, fetched, stop, df_clean,
                   nuevos_insertados, total_antes, deleted, total_despues,
                   critical, history, runs>>

(* Faulty variant of rollback: the statements already executed stay in the table. *)
rollback_keeps_writes(committed, view) == view

(* What the table holds after a statement of the transaction failed:
   engine.begin() rolls back and re-raises. *)
rollback(committed, view) == committed

(* Faulty variant of TxFault: the checkpoint is written although the transaction failed. *)
TxFault_saves_checkpoint ==
    /\ pc \in {"insert", "dedupe", "count", "commit"}
    /\ table' = rollback(table, tx)
    /\ tx' = EmptyBag
    /\ error' = "DBError"
    /\ checkpoint' = _save_checkpoint(end_date)
    /\ pc' = "raised"
    /\ UNCHANGED <<api, end_date, start_date, existing_ids,
                   all_customers, page, fetched, stop, df_clean,
                   nuevos_insertados, total_antes, deleted, total_despues,
                   critical, history, runs>>

(* A database fault in any statement of the transaction, or in its commit. *)
TxFault ==
    /\ pc \in {"insert", "dedupe", "count", "commit"}
    /\ table' = rollback(table, tx)
    /\ tx' = EmptyBag
    /\ error' = "DBError"
    /\ pc' = "raised"
    /\ UNCHANGED <<checkpoint, api, end_date, start_date, existing_ids,
                   all_customers, page, fetched, stop, df_clean,
                   nuevos_insertados, total_antes, deleted, total_despues,
                   critical, history, runs>>

(* Line 125. *)
SaveCheckpoint ==
    /\ pc = "save"
    /\ checkpoint' = _save_checkpoint(end_date)
    /\ pc' = "report"
    /\ UNCHANGED <<table, api, error, run_locals, history, runs>>

(* Lines 127-134: df_nuevos[cols_key] raises KeyError when a column of cols_key
   is missing from the new records; otherwise _verify_accumulation passes and
   the run returns. *)
Report ==
    /\ pc = "report"
    /\ IF cols_key \subseteq Columns(all_customers)
       THEN pc' = "done" /\ error' = error
       ELSE pc' = "raised_late" /\ error' = "KeyError"
    /\ UNCHANGED <<table, checkpoint, api, run_locals, history, runs>>

Next ==
    \/ Snapshot
    \/ FetchRaises
    \/ FetchEnds
    \/ FetchPage
    \/ NoNewCustomers
    \/ PreprocessFails
    \/ Begin
    \/ Insert
    \/ Dedupe
    \/ CountAfter
    \/ Commit
    \/ TxFault
    \/ SaveCheckpoint
    \/ VerifyFails
    \/ Report

Spec == Init /\ [][Next]_vars

----------------------------------------------------------------------------
(* Two runs in succession, the second fed the responses the first was given. *)

TwiceRows == {StoredRow(i, 1) : i \in Ids}

TwiceRecords == {GoodRecord(i) : i \in Ids} \cup {JunkRecord}

InitTwice ==
    /\ table \in {SeqToBag(s) : s \in Seqs(TwiceRows, MaxInit)}
    /\ checkpoint = IF table = EmptyBag THEN NULL ELSE Today - 1
    /\ api = TwiceRecords
    /\ InitRun
    /\ table_before = table
    /\ checkpoint_before = checkpoint
    /\ rerun = "first"
    /\ served = <<>>
    /\ first_table = EmptyBag
    /\ runs = <<>>

(* The process ended normally and incremental_accumulate is run again (lines 224-226). *)
Rerun ==
    /\ pc = "done"
    /\ rerun = "first"
    /\ rerun' = "second"
    /\ first_table' = table
    /\ table_before' = table
    /\ checkpoint_before' = checkpoint
    /\ pc' = "start"
    /\ end_date' = NULL
    /\ start_date' = NULL
    /\ existing_ids' = {}
    /\ all_customers' = <<>>
    /\ page' = 1
    /\ fetched' = 0
    /\ stop' = "none"
    /\ df_clean' = <<>>
    /\ nuevos_insertados' = 0
    /\ tx' = EmptyBag
    /\ total_antes' = 0
    /\ deleted' = 0
    /\ total_despues' = UNBOUND
    /\ critical' = FALSE
    /\ UNCHANGED <<table, checkpoint, api, error, served, runs>>

NextTwice == Next \/ Rerun

SpecTwice == InitTwice /\ [][NextTwice]_vars

----------------------------------------------------------------------------
(* One run over an empty table, the API holding one customer of any raw shape. *)

RawRecords ==
    {RawRecord(1, cd, camp, opt, tg) :
        cd \in RawDates, camp \in RawNumerics, opt \in RawBools, tg \in RawJsons}

InitNorm ==
    /\ table = EmptyBag
    /\ checkpoint = NULL
    /\ api \in {{r} : r \in RawRecords}
    /\ InitRun
    /\ table_before = table
    /\ checkpoint_before = checkpoint
    /\ rerun = "off"
    /\ served = <<>>
    /\ first_table = EmptyBag
    /\ runs = <<>>

SpecNorm == InitNorm /\ [][Next]_vars

----------------------------------------------------------------------------
(* One run that is scheduled until it ends, the served pages recorded, started
   with the checkpoint file absent or holding any saved date. *)

Checkpoints == {NULL, Today - 1, Today}

InitPages ==
    /\ table \in {SeqToBag(s) : s \in Seqs(TwiceRows, 1)}
    /\ checkpoint \in Checkpoints
    /\ api = TwiceRecords
    /\ InitRun
    /\ table_before = table
    /\ checkpoint_before = checkpoint
    /\ rerun = "first"
    /\ served = <<>>
    /\ first_table = EmptyBag
    /\ runs = <<>>

(* The interpreter runs the process on until it returns or raises. *)
SpecPages == InitPages /\ [][Next]_vars /\ WF_vars(Next)

----------------------------------------------------------------------------
(* The process killed in mid-run, and the checkpoint file in mid-write. *)

(* _load_checkpoint: the date the next run reads, NULL when the file is absent;
   json.load raises on a file that holds no complete JSON value. *)
_load_checkpoint(file) == IF file = NULL THEN NULL ELSE file

LoadRaises(file) == file = EMPTY_FILE

(* Line 220: open(self.checkpoint_file, 'w') truncates the file in place. *)
OpenCheckpoint ==
    /\ pc \in {"no_new", "save"}
    /\ checkpoint' = EMPTY_FILE
    /\ pc' = "writing"
    /\ UNCHANGED <<table, api, error, run_locals, history, runs>>

(* Line 221 and the end of the with block: the JSON text reaches the file. *)
CloseCheckpoint ==
    /\ pc = "writing"
    /\ checkpoint' = _save_checkpoint(end_date)
    /\ pc' = IF all_customers = <<>> THEN "done" ELSE "report"
    /\ UNCHANGED <<table, api, error, run_locals, history, runs>>

(* The process dies (kill, power loss): the database drops its open
   transaction, the files stay as they are. *)
Crash ==
    /\ pc \in {"start", "fetch", "no_new", "accumulate", "insert", "dedupe",
               "count", "commit", "save", "writing", "report"}
    /\ pc' = "crashed"
    /\ table' = rollback(table, tx)
    /\ tx' = EmptyBag
    /\ UNCHANGED <<checkpoint, api, error, end_date, start_date, existing_ids,
                   all_customers, page, fetched, stop, df_clean,
                   nuevos_insertados, total_antes, deleted, total_despues,
                   critical, history, runs>>

NextCrash == Next \/ OpenCheckpoint \/ CloseCheckpoint \/ Crash

SpecCrash == Init /\ [][NextCrash]_vars

----------------------------------------------------------------------------
(* Two processes run incremental_accumulate at the same time against the one
   table. PostgreSQL's default isolation (READ COMMITTED): a statement sees the
   committed rows and the changes of its own transaction, never the uncommitted
   rows of the other transaction. *)

Procs == {"A", "B"}

MaxRaceFetched == 2     \* records the API serves to each of the two runs

RaceRecords == {GoodRecord(i) : i \in Ids}

(* The sub-bag of b on the rows in S. *)
Keep(b, S) == [r \in BagToSet(b) \cap S |-> b[r]]

(* What the statements of p's transaction see. *)
View(p) == (table (-) runs[p].del) (+) runs[p].ins

(* The rows the DELETE of p's transaction matches. *)
Swept(p) == {r \in BagToSet(View(p)) : DedupeMatches(View(p), r)}

(* The committed table never holds two rows of one id at the start, so no two
   sweeps match the same committed row and no DELETE waits on a row lock. *)
InitRace ==
    /\ table \in {SeqToBag(s) : s \in Seqs(TwiceRows, 1)}
    /\ checkpoint = IF table = EmptyBag THEN NULL ELSE Today - 1
    /\ api = RaceRecords
    /\ InitRun
    /\ table_before = table
    /\ checkpoint_before = checkpoint
    /\ rerun = "off"
    /\ served = <<>>
    /\ first_table = EmptyBag
    /\ runs = [p \in Procs |->
                 [pc |-> "start", early |-> FALSE, existing_ids |-> {},
                  all_customers |-> <<>>, ins |-> EmptyBag, del |-> EmptyBag,
                  page |-> 1, fetched |-> 0,
                  total_antes |-> 0, deleted |-> 0, total_despues |-> UNBOUND,
                  critical |-> FALSE]]

(* The transaction of p has committed (a run that found nothing new has none). *)
Committed(p) == runs[p].pc \in {"save", "done"} /\ runs[p].all_customers # <<>>

(* Lines 66-79, by process p. *)
RSnapshot(p) ==
    /\ runs[p].pc = "start"
    /\ runs' = [runs EXCEPT ![p].pc = "fetch",
                            ![p].early = \A q \in Procs : ~Committed(q),
                            ![p].existing_ids = SelectIds(table)]
    /\ UNCHANGED <<table, checkpoint, api, pc, error, run_locals, history>>

(* Lines 93-110, by process p: one page with customers. *)
RFetchPage(p) ==
    /\ runs[p].pc = "fetch"
    /\ \E cs \in Seqs(api, MaxRaceFetched - runs[p].fetched) \ {<<>>} :
          runs' = [runs EXCEPT
                     ![p].all_customers = @ \o nuevos_customers(cs, runs[p].existing_ids),
                     ![p].fetched = @ + Len(cs),
                     ![p].page = @ + 1]
    /\ UNCHANGED <<table, checkpoint, api, pc, error, run_locals, history>>

(* Lines 89-95 and 112-114, by process p: a page without customers ends the loop. *)
RFetchEnds(p) ==
    /\ runs[p].pc = "fetch"
    /\ runs' = [runs EXCEPT ![p].pc = IF runs[p].all_customers = <<>>
                                      THEN "no_new" ELSE "accumulate"]
    /\ UNCHANGED <<table, checkpoint, api, pc, error, run_locals, history>>

(* Line 116, by process p: the two queries of _verify_accumulation. *)
RVerify(p) ==
    /\ runs[p].pc = "no_new"
    /\ runs' = [runs EXCEPT ![p].pc = "verified"]
    /\ UNCHANGED <<table, checkpoint, api, pc, error, run_locals, history>>

(* Lines 138-144, by process p: the transaction begins and counts the rows. *)
RBegin(p) ==
    /\ runs[p].pc = "accumulate"
    /\ runs' = [runs EXCEPT ![p].pc = "insert",
                            ![p].total_antes = CountRows(View(p))]
    /\ UNCHANGED <<table, checkpoint, api, pc, error, run_locals, history>>

(* Lines 147-148, by process p. *)
RInsert(p) ==
    /\ runs[p].pc = "insert"
    /\ runs' = [runs EXCEPT ![p].pc = "dedupe",
                            ![p].ins = SeqToBag(_preprocess_df(runs[p].all_customers))]
    /\ UNCHANGED <<table, checkpoint, api, pc, error, run_locals, history>>

(* Lines 151-164, by process p: the DELETE takes the matched rows out of what
   p inserted and marks the matched committed rows deleted. *)
RDedupe(p) ==
    /\ runs[p].pc = "dedupe"
    /\ runs' = [runs EXCEPT
                  ![p].pc = "count",
                  ![p].ins = Keep(runs[p].ins, BagToSet(runs[p].ins) \ Swept(p)),
                  ![p].del = runs[p].del (+) Keep(table (-) runs[p].del, Swept(p)),
                  ![p].deleted = CountRows(View(p)) - CountRows(dedupe_sql(View(p)))]
    /\ UNCHANGED <<table, checkpoint, api, pc, error, run_locals, history>>

(* Lines 167-173, by process p: a new statement, which sees what has been
   committed since the DELETE. *)
RCount(p) ==
    /\ runs[p].pc = "count"
    /\ runs' = [runs EXCEPT
                  ![p].pc = "commit",
                  ![p].total_despues = CountRows(View(p)),
                  ![p].critical = (CountRows(View(p)) < runs[p].total_antes)]
    /\ UNCHANGED <<table, checkpoint, api, pc, error, run_locals, history>>

(* Leaving "with engine.begin()", by process p. *)
RCommit(p) ==
    /\ runs[p].pc = "commit"
    /\ table' = (table (-) runs[p].del) (+) runs[p].ins
    /\ runs' = [runs EXCEPT ![p].pc = "save"]
    /\ UNCHANGED <<checkpoint, api, pc, error, run_locals, history>>

(* Lines 117 and 125, by process p; the report of lines 127-134 writes nothing. *)
RSave(p) ==
    /\ runs[p].pc \in {"verified", "save"}
    /\ checkpoint' = _save_checkpoint(Today)
    /\ runs' = [runs EXCEPT ![p].pc = "done"]
    /\ UNCHANGED <<table, api, pc, error, run_locals, history>>

NextRace ==
    \E p \in Procs :
        \/ RSnapshot(p)
        \/ RFetchPage(p)
        \/ RFetchEnds(p)
        \/ RVerify(p)
        \/ RBegin(p)
        \/ RInsert(p)
        \/ RDedupe(p)
        \/ RCount(p)
        \/ RCommit(p)
        \/ RSave(p)

SpecRace == InitRace /\ [][NextRace]_vars

----------------------------------------------------------------------------
(* Properties *)

(* Number of stored rows carrying id i. *)
CopiesOfId(t, i) == BagCardinality(Partition(t, i))

(* x sorts before y under "DESC NULLS LAST". *)
SortsBefore(x, y) == x # NULL /\ (y = NULL \/ x > y)

(* a sorts before b under ORDER BY updated_at DESC NULLS LAST,
   creation_date DESC NULLS LAST. *)
RankedBefore(a, b) ==
    \/ SortsBefore(a.updated_at, b.updated_at)
    \/ (a.updated_at = b.updated_at /\ SortsBefore(a.creation_date, b.creation_date))

(* r is a row of t that no row of the same id is ranked before. *)
IsLatest(t, r) ==
    /\ r \in BagToSet(t)
    /\ \A x \in BagToSet(Partition(t, r.id)) : ~RankedBefore(x, r)

(* The transaction's view right before the dedupe sweep ran. *)
BeforeSweepOf(t) == to_sql(t, df_clean)

BeforeSweep == BeforeSweepOf(table)

(* The records the API served to the first run, in order. *)
RECURSIVE Flatten(_)
Flatten(ss) == IF ss = <<>> THEN <<>> ELSE ss[1].customers \o Flatten(Tail(ss))

IsNew(c) == c.id \notin SelectIds(table_before)

InTransaction == pc \in {"insert", "dedupe", "count", "commit"}

FetchFaults ==
    {"timeout", "non200", "not_json", "no_customers_key", "not_object",
     "customer_not_object"}

(* The run is past its _save_checkpoint call: it reports, has returned, or was
   ended by an exception of the report. *)
CheckpointWritten == pc \in {"report", "done", "raised_late"}

(* C1: when a run has completed, the table holds at least as many rows as it
   held before the run. *)
C1_Monotonic ==
    pc = "done" => CountRows(table) >= CountRows(table_before)

(* C2: once the dedupe sweep has run, every id that several rows shared is left
   with exactly one row, a row with the latest updated_at (ties: latest
   creation_date) among them. *)
C2_DedupKeepsLatest ==
    pc = "count" =>
        \A i \in Ids :
            CopiesOfId(BeforeSweep, i) >= 2 =>
                /\ CopiesOfId(tx, i) = 1
                /\ \A r \in BagToSet(Partition(tx, i)) : IsLatest(BeforeSweep, r)

(* C3, as claimed: when a run has completed, whatever it fetched, no id is
   carried by more than one stored row. *)
C3_UniqueAfterRun ==
    pc = "done" => \A i \in Ids : CopiesOfId(table, i) <= 1

(* C3, amended: when a run that handed at least one record to insertion has
   completed, no id is carried by more than one stored row; a completed run
   that found no new record has left the table as it was. *)
C3_UniqueAfterInsertingRun ==
    pc = "done" =>
        /\ all_customers # <<>> => \A i \in Ids : CopiesOfId(table, i) <= 1
        /\ all_customers = <<>> => table = table_before

(* C3 witness: an inserting run is done and its sweep deleted rows. *)
C3_Witness ==
    /\ pc = "done"
    /\ all_customers # <<>>
    /\ deleted > 0
    /\ table # EmptyBag
    /\ \A i \in Ids : CopiesOfId(table, i) <= 1

(* C4: a second run fed the same responses as the first ends with the table the
   first run left. *)
C4_Idempotent ==
    (rerun = "second" /\ pc = "done") => table = first_table

(* C5: the records handed to insertion are exactly the served records whose id
   is absent from the snapshot taken at the start of the run, in the order
   served, and the reported inserted count is their number. *)
C5_PolicyAClassification ==
    rerun = "first" =>
        /\ pc # "start" => existing_ids = SelectIds(table_before)
        /\ all_customers = SelectSeq(Flatten(served), IsNew)
        /\ fetched = Len(Flatten(served))
        /\ pc \in {"insert", "dedupe", "count", "commit", "save", "report", "done",
                   "raised_late"} =>
              /\ nuevos_insertados = Len(SelectSeq(Flatten(served), IsNew))
              /\ Len(df_clean) = nuevos_insertados
              /\ \A k \in 1..Len(df_clean) : df_clean[k].id = all_customers[k].id

(* C5 witness: 3 records served, 2 with ids in the snapshot, 1 inserted. *)
C5_Witness ==
    /\ rerun = "first"
    /\ pc = "done"
    /\ fetched = 3
    /\ Len(SelectSeq(Flatten(served), LAMBDA c : ~IsNew(c))) = 2
    /\ nuevos_insertados = 1

(* C6: while the transaction is open the committed table is the one the run
   started with, and after a fault in the transaction it still is: no inserted
   row and no dedupe deletion persists. *)
C6_TransactionAtomic ==
    /\ InTransaction => table = table_before
    /\ (error = "DBError" /\ pc = "raised") => (table = table_before /\ tx = EmptyBag)

(* C6 witness: the fault came after rows were inserted and the sweep deleted some. *)
C6_Witness ==
    /\ pc = "raised"
    /\ error = "DBError"
    /\ nuevos_insertados > 0
    /\ deleted > 0
    /\ table = table_before

(* C7: the checkpoint keeps its previous value until the run has written it;
   a run that has written it either fetched nothing new or has its
   transaction's result committed in the table; a run ended by an exception
   before that point, a fault of the transaction among them, leaves the
   previous value. *)
C7_CheckpointFollowsCommit ==
    /\ ~CheckpointWritten => checkpoint = checkpoint_before
    /\ CheckpointWritten =>
          /\ checkpoint = end_date
          /\ \/ (all_customers = <<>> /\ table = table_before)
             \/ (all_customers # <<>> /\ table = dedupe_sql(BeforeSweepOf(table_before)))
    /\ (error = "DBError" /\ pc = "raised") => checkpoint = checkpoint_before

(* C7 witness: the transaction faulted after the insert and the checkpoint is the old one. *)
C7_Witness ==
    /\ pc = "raised"
    /\ error = "DBError"
    /\ nuevos_insertados > 0
    /\ checkpoint = checkpoint_before
    /\ checkpoint # end_date

(* C8: a page request that times out, returns a non-200 status or a malformed
   body ends the page loop without raising. *)
C8_FetchFaultsEndPagination ==
    stop \in FetchFaults =>
        (error \notin {"Timeout", "JSONDecodeError", "AttributeError"})

(* C9: when page 1 returns an empty customers list, nothing is fetched, the run
   goes the no-new-customer way, the table stays as it was, and the run goes on
   to write its end date to the checkpoint; nothing but a database fault in the
   queries of _verify_accumulation ends it before. *)
C9_EmptyFetch ==
    (stop = "ok" /\ page = 1) =>
        /\ fetched = 0
        /\ all_customers = <<>>
        /\ table = table_before
        /\ pc \in {"no_new", "done", "raised"}
        /\ pc = "no_new" => ENABLED NoNewCustomers
        /\ pc = "done" => (checkpoint = Today /\ checkpoint = end_date)
        /\ pc = "raised" => (error = "DBError" /\ checkpoint = checkpoint_before)

(* C9 witness: such a run is done, over a table that held rows. *)
C9_Witness ==
    /\ stop = "ok"
    /\ page = 1
    /\ pc = "done"
    /\ table # EmptyBag
    /\ checkpoint = Today
    /\ checkpoint_before # Today

(* C10: _preprocess_df never raises, so no run ends with a coercion error. *)
C10_NormalizerTotal ==
    error # "TypeError"

(* C11: whenever the process has been killed, the checkpoint file holds the
   complete previous value or the complete new one, which the next run can load. *)
C11_CheckpointCrashSafe ==
    pc = "crashed" =>
        /\ ~LoadRaises(checkpoint)
        /\ _load_checkpoint(checkpoint) \in {checkpoint_before, end_date}

(* C16: while the page loop has not ended, the table and the checkpoint are
   those the run started with, also once the process was killed in that phase. *)
C16_NoWriteBeforeFetchEnds ==
    /\ pc \in {"start", "fetch"} =>
          (table = table_before /\ checkpoint = checkpoint_before /\ tx = EmptyBag)
    /\ (pc = "crashed" /\ stop = "none") =>
          (table = table_before /\ checkpoint = checkpoint_before /\ tx = EmptyBag)
    /\ error \in {"Timeout", "JSONDecodeError", "AttributeError"} =>
          (table = table_before /\ checkpoint = checkpoint_before /\ tx = EmptyBag)

(* C16 witness: killed in the page loop after a page with new records came in. *)
C16_Witness ==
    /\ pc = "crashed"
    /\ stop = "none"
    /\ page > 1
    /\ all_customers # <<>>
    /\ table = table_before
    /\ checkpoint = checkpoint_before

(* The ids of the records handed to insertion. *)
InsertedIds == {all_customers[k].id : k \in DOMAIN all_customers}

(* The run's window [start_date, end_date] holds the date d. *)
InWindow(d) == d # NULL /\ start_date <= d /\ d <= end_date

(* Row r was the only stored row of its id when the run started. *)
AloneBefore(r) ==
    /\ r \in BagToSet(table_before)
    /\ CopiesIn(r, table_before) = 1
    /\ \A x \in BagToSet(table_before) : x.id = r.id => x = r

(* C13: after a completed run, every id that was fetched and was absent from
   the table at the start is carried by exactly one stored row. *)
C13_NewRecordStoredOnce ==
    pc = "done" =>
        \A i \in Ids :
            (i \in InsertedIds /\ i \notin SelectIds(table_before)) =>
                CopiesOfId(table, i) = 1

(* C14: a row that was the only stored row of its id when the run started is
   stored unchanged, exactly once, when the run has ended, whether or not its
   creation_date lies in the run's window. *)
C14_ExistingRowsLeftAlone ==
    pc \in {"done", "raised", "raised_late"} =>
        \A r \in BagToSet(table_before) :
            AloneBefore(r) => (r \in BagToSet(table) /\ CopiesIn(r, table) = 1)

(* C14 witness: the run inserted rows and its sweep deleted rows, and a row
   dated inside the window that was alone with its id is still stored. *)
C14_Witness ==
    /\ pc = "done"
    /\ nuevos_insertados > 0
    /\ deleted > 0
    /\ \E r \in BagToSet(table_before) :
           /\ AloneBefore(r)
           /\ r.id # NULL
           /\ InWindow(r.creation_date)
           /\ CopiesIn(r, table) = 1

(* The run has taken the count after the insert and the sweep. *)
Measured == total_despues # UNBOUND

(* C15: the critical message is emitted exactly when the count measured after
   the insert and the sweep is lower than the count measured before, also in a
   run whose commit then faults; the message itself stops nothing: the run goes
   on to commit and to write the checkpoint. *)
C15_IntegrityFaultDetectionOnly ==
    /\ ~Measured => ~critical
    /\ (pc \in {"commit", "save", "report", "raised_late"}
           \/ (pc = "done" /\ all_customers # <<>>)) => Measured
    /\ Measured =>
          /\ total_antes = CountRows(table_before)
          /\ total_despues = CountRows(dedupe_sql(BeforeSweepOf(table_before)))
          /\ critical <=> (total_despues < total_antes)
    /\ (pc = "commit" /\ critical) => ENABLED Commit
    /\ (pc = "save" /\ critical) => (table = dedupe_sql(BeforeSweepOf(table_before))
                                     /\ ENABLED SaveCheckpoint)
    /\ (CheckpointWritten /\ critical) =>
          (table = dedupe_sql(BeforeSweepOf(table_before)) /\ checkpoint = end_date)

(* C15 witness: the run that emitted the critical message is done, its smaller
   table committed and its checkpoint written. *)
C15_Witness ==
    /\ pc = "done"
    /\ critical
    /\ CountRows(table) < CountRows(table_before)
    /\ checkpoint = end_date

(* The response carried records, so the loop went on to the next page. *)
GoesOn(resp) == ~Raises(resp) /\ ~EndOfData(resp)

(* The page loop is over. *)
LoopOver == pc \notin {"start", "fetch"}

PagesInOrder ==
    /\ pc = "fetch" =>
          /\ page = Len(served) + 1
          /\ \A k \in 1..Len(served) : GoesOn(served[k])
    /\ LoopOver =>
          /\ page = Len(served)
          /\ \A k \in 1..(page - 1) : GoesOn(served[k])
          /\ ~GoesOn(served[page])
    /\ all_customers = SelectSeq(Flatten(served), IsNew)
    /\ fetched = Len(Flatten(served))

(* Every request is for the page numbered one after the requests made so far,
   and none is made once the loop is over. *)
OneRequestPerPage ==
    /\ served' # served => (pc = "fetch" /\ Len(served') = page)
    /\ LoopOver => (served' = served /\ page' = page)

(* C17: the k-th request of a run is for page k, the loop ends at the first
   response without records and requests nothing after it, it does end, and
   every record of the pages before the last one has been classified. *)
C17_PageOrderAndTermination ==
    /\ []PagesInOrder
    /\ [][OneRequestPerPage]_vars
    /\ <>LoopOver

(* C17 witness: the loop ended at page 3, after two pages with records. *)
C17_Witness ==
    /\ LoopOver
    /\ page = 3
    /\ Len(served) = 3
    /\ GoesOn(served[1])
    /\ GoesOn(served[2])
    /\ EndOfData(served[3])
    /\ fetched >= 2

(* What a completed run leaves in the table, from the table it started with
   and the pages it was served. *)
RunResult(t, pages) ==
    LET nuevos == SelectSeq(Flatten(pages), LAMBDA c : c.id \notin SelectIds(t))
    IN  IF nuevos = <<>> THEN t ELSE dedupe_sql(to_sql(t, _preprocess_df(nuevos)))

(* C18: the window, the rows handed to insertion, the final table and the new
   checkpoint are functions of the starting table, the clock date and the
   served pages alone, whatever the checkpoint file held at the start. *)
C18_CheckpointNotRead ==
    /\ checkpoint_before \in Checkpoints
    /\ pc # "start" =>
          /\ start_date = Today - days_back
          /\ end_date = Today
          /\ existing_ids = SelectIds(table_before)
    /\ all_customers = SelectSeq(Flatten(served), IsNew)
    /\ pc \in {"insert", "dedupe", "count", "commit", "save", "report", "done",
               "raised_late"} =>
          df_clean = _preprocess_df(SelectSeq(Flatten(served), IsNew))
    /\ CheckpointWritten =>
          /\ table = RunResult(table_before, served)
          /\ checkpoint = Today

(* C18 witness: a run started with a checkpoint saved the same day inserted
   rows and is done. *)
C18_Witness ==
    /\ pc = "done"
    /\ checkpoint_before = Today
    /\ nuevos_insertados > 0
    /\ table # table_before
    /\ table = RunResult(table_before, served)
    /\ checkpoint = Today

(* Both runs took their snapshot before either committed, and both handed a
   record of id i, which neither snapshot held, to insertion. *)
Raced(i) ==
    \A p \in Procs :
        /\ runs[p].early
        /\ i \notin runs[p].existing_ids
        /\ \E k \in DOMAIN runs[p].all_customers : runs[p].all_customers[k].id = i

(* C12: once two runs that raced on an id have both committed, exactly one
   stored row carries that id. *)
C12_RaceLeavesOneRow ==
    (runs # <<>> /\ \A p \in Procs : Committed(p)) =>
        \A i \in Ids : Raced(i) => CopiesOfId(table, i) = 1

====
